---- MODULE Spec2Model ----
(***************************************************************************)
(* The ask-indexing pipeline of wren-ai-service                             *)
(* (src/pipelines/ask/indexing_pipeline.py): DocumentCleaner, MDLValidator, *)
(* ViewConverter, DDLConverter and the Indexing pipeline that wires them    *)
(* to two embedders and two writers over a DDL store and a view store.      *)
(*                                                                          *)
(* Python values are modelled as follows.  A dict is a function whose       *)
(* DOMAIN is its key set, so `k in d` is k \in DOMAIN d.  A list is a       *)
(* sequence.  A text that the code only compares or interpolates is a       *)
(* string; a text that the code splits (a relationship's condition) is a    *)
(* sequence of tokens, the separators " ", "=" and "." being tokens of      *)
(* their own.  A call that may raise returns a result record: ok, value,    *)
(* and the name of the exception raised.                                    *)
(***************************************************************************)
EXTENDS Integers, Sequences, FiniteSets, TLC

\* ------------------------------------------------------------------ results

Ok(v) == [ok |-> TRUE, value |-> v, error |-> "none"]

Raise(e) == [ok |-> FALSE, value |-> <<>>, error |-> e]

\* ------------------------------------------------------------------ text

EmptyDict == [k \in {} |-> ""]

HasKey(d, k) == k \in DOMAIN d

\* "".join(tokens)
RECURSIVE Concat(_)
Concat(tokens) ==
  IF tokens = <<>> THEN "" ELSE Head(tokens) \o Concat(Tail(tokens))

\* sep.join(lines)
RECURSIVE Join(_, _)
Join(lines, sep) ==
  IF lines = <<>> THEN ""
  ELSE IF Len(lines) = 1 THEN lines[1]
  ELSE lines[1] \o sep \o Join(Tail(lines), sep)

StartsAt(s, sep, i) ==
  /\ i + Len(sep) - 1 <= Len(s)
  /\ \A k \in 1..Len(sep) : s[i + k - 1] = sep[k]

\* str.split(sep): the parts between the non-overlapping occurrences of sep,
\* scanned from the left; [s] when sep does not occur.
RECURSIVE Split(_, _)
Split(s, sep) ==
  LET hits == {i \in 1..Len(s) : StartsAt(s, sep, i)} IN
  IF hits = {} THEN <<s>>
  ELSE LET i == CHOOSE h \in hits : \A g \in hits : h <= g IN
       <<SubSeq(s, 1, i - 1)>> \o Split(SubSeq(s, i + Len(sep), Len(s)), sep)

EqSep == <<" ", "=", " ">>

DotSep == <<".">>

\* str.upper() on the join types the inputs use
Upper(s) ==
  CASE s = "many_to_one" -> "MANY_TO_ONE"
    [] s = "one_to_many" -> "ONE_TO_MANY"
    [] s = "one_to_one" -> "ONE_TO_ONE"
    [] OTHER -> s

\* orjson.dumps(properties).decode("utf-8") for the property dicts of the
\* inputs: at most the keys description and displayName, in that order.
Dumps(properties) ==
  LET kv(k) == "\"" \o k \o "\":\"" \o properties[k] \o "\""
      keys == SelectSeq(<<"description", "displayName">>,
                        LAMBDA k : HasKey(properties, k))
  IN "{" \o Join([i \in 1..Len(keys) |-> kv(keys[i])], ",") \o "}"

\* str(d) of a dict of strings whose keys, in insertion order, are `keys`
PyStr(d, keys) ==
  LET kv(k) == "'" \o k \o "': '" \o d[k] \o "'"
      present == SelectSeq(keys, LAMBDA k : HasKey(d, k))
  IN "{" \o Join([i \in 1..Len(present) |-> kv(present[i])], ", ") \o "}"

\* str(i) for a document's position
RECURSIVE Str(_)
Str(i) ==
  CASE i = 0 -> "0" [] i = 1 -> "1" [] i = 2 -> "2" [] i = 3 -> "3"
    [] i = 4 -> "4" [] i = 5 -> "5" [] i = 6 -> "6" [] i = 7 -> "7"
    [] i = 8 -> "8" [] i = 9 -> "9"
    [] OTHER -> Str(i \div 10) \o Str(i % 10)

\* ------------------------------------------------------------------ results of loops

\* A loop over calls that may raise: the list of their values, or the first
\* exception in iteration order.
Collect(results) ==
  LET bad == {i \in 1..Len(results) : ~results[i].ok} IN
  IF bad = {} THEN Ok([i \in 1..Len(results) |-> results[i].value])
  ELSE Raise(results[CHOOSE i \in bad : \A j \in bad : i <= j].error)

\* sum(lists, [])
RECURSIVE Flatten(_)
Flatten(lists) ==
  IF lists = <<>> THEN <<>> ELSE Head(lists) \o Flatten(Tail(lists))

\* ------------------------------------------------------------------ DDLConverter

ColumnKeys ==
  {"name", "type", "properties", "relationship", "expression", "isCalculated"}

\* DDLConverter.run, the body of `for column in model["columns"]`
ddl_column(column) ==
  IF ~({"name", "type"} \subseteq DOMAIN column) THEN Raise("KeyError")
  ELSE Ok([k \in DOMAIN column \cap ColumnKeys |-> column[k]])

\* DDLConverter.run, the body of `for model in mdl["models"]`
semantics_model(model) ==
  IF ~HasKey(model, "columns") THEN Raise("KeyError")
  ELSE LET columns ==
             Collect([i \in 1..Len(model.columns) |-> ddl_column(model.columns[i])])
       IN IF ~columns.ok THEN columns
          ELSE IF ~({"name", "primaryKey"} \subseteq DOMAIN model)
          THEN Raise("KeyError")
          ELSE Ok([type |-> "model",
                   name |-> model.name,
                   properties |-> IF HasKey(model, "properties")
                                  THEN model.properties ELSE EmptyDict,
                   columns |-> columns.value,
                   primaryKey |-> model.primaryKey])

\* primary_keys_map = {model["name"]: model["primaryKey"] for model in models}:
\* a later model of the same name overrides an earlier one.
primary_keys_map(models) ==
  [n \in {models[i].name : i \in 1..Len(models)} |->
     LET at == {i \in 1..Len(models) : models[i].name = n}
         last == CHOOSE i \in at : \A j \in at : j <= i
     IN models[last].primaryKey]

\* The line of one column that is not a relationship column
column_ddl(column, model) ==
  LET comment0 == IF HasKey(column, "properties")
                  THEN "-- " \o Dumps(column.properties) \o "\n  " ELSE ""
      calculated == HasKey(column, "isCalculated") /\ column.isCalculated
  IN IF calculated /\ ~HasKey(column, "expression") THEN Raise("KeyError")
     ELSE LET comment == IF calculated
                         THEN comment0 \o "-- This column is a Calculated Field\n  -- column expression: "
                                       \o column.expression \o "\n  "
                         ELSE comment0
              line == comment \o column.name \o " " \o column.type
          IN Ok(IF column.name = model.primaryKey
                THEN line \o " PRIMARY KEY" ELSE line)

\* relationship["condition"].split(" = ")[index].split(".")[1]
fk_column(condition, index) ==
  LET sides == Split(condition, EqSep) IN
  IF index + 1 > Len(sides) THEN Raise("IndexError")
  ELSE LET parts == Split(sides[index + 1], DotSep) IN
       IF Len(parts) < 2 THEN Raise("IndexError") ELSE Ok(Concat(parts[2]))

\* f"FOREIGN KEY ({fk_column}) REFERENCES {related_table}({primary_keys_map[related_table]})"
fk_constraint(column, related_table, pk_map) ==
  IF ~column.ok THEN column
  ELSE IF related_table \notin DOMAIN pk_map THEN Raise("KeyError")
  ELSE Ok(<<"FOREIGN KEY (" \o column.value \o ") REFERENCES " \o related_table
            \o "(" \o pk_map[related_table] \o ")">>)

\* relationship["models"].index(table_name), zero-based
index_of(names, table_name) ==
  (CHOOSE i \in 1..Len(names) :
     names[i] = table_name /\ \A j \in 1..(i - 1) : names[j] # table_name) - 1

\* Mutant of relationship_constraints: the ONE_TO_MANY branch tests the first
\* model of the pair, so the constraint lands on the wrong table
relationship_constraints_wrong_side(table_name, relationship, pk_map) ==
  LET names == relationship.models
      joinType == Upper(relationship.joinType)
  IN IF table_name = names[1] /\ joinType = "MANY_TO_ONE"
     THEN fk_constraint(fk_column(relationship.condition, 0), names[2], pk_map)
     ELSE IF table_name = names[1] /\ joinType = "ONE_TO_MANY"
     THEN fk_constraint(fk_column(relationship.condition, 1), names[1], pk_map)
     ELSE IF (\E i \in 1..Len(names) : names[i] = table_name) /\ joinType = "ONE_TO_ONE"
     THEN LET index == index_of(names, table_name)
              others == SelectSeq(names, LAMBDA m : m # table_name)
          IN IF others = <<>> THEN Raise("IndexError")
             ELSE fk_constraint(fk_column(relationship.condition, index), others[1], pk_map)
     ELSE Ok(<<>>)

\* The body of `for relationship in relationships`: the constraint lines one
\* relationship appends to the table named table_name (none or one).
relationship_constraints(table_name, relationship, pk_map) ==
  LET names == relationship.models
      joinType == Upper(relationship.joinType)
  IN IF table_name = names[1] /\ joinType = "MANY_TO_ONE"
     THEN fk_constraint(fk_column(relationship.condition, 0), names[2], pk_map)
     ELSE IF table_name = names[2] /\ joinType = "ONE_TO_MANY"
     THEN fk_constraint(fk_column(relationship.condition, 1), names[1], pk_map)
     ELSE IF (\E i \in 1..Len(names) : names[i] = table_name) /\ joinType = "ONE_TO_ONE"
     THEN LET index == index_of(names, table_name)
              others == SelectSeq(names, LAMBDA m : m # table_name)
          IN IF others = <<>> THEN Raise("IndexError")
             ELSE fk_constraint(fk_column(relationship.condition, index), others[1], pk_map)
     ELSE Ok(<<>>)

\* f"{comment}CREATE TABLE {table_name} (\n  " + ",\n  ".join(columns_ddl) + "\n);"
create_table_ddl(comment, table_name, columns_ddl) ==
  comment \o "CREATE TABLE " \o table_name \o " (\n  "
          \o Join(columns_ddl, ",\n  ") \o "\n);"

\* The comment that opens a model's block
model_comment(model) ==
  IF HasKey(model, "properties")
  THEN "\n/* " \o Dumps(model.properties) \o " */\n" ELSE ""

\* columns_ddl of one model: its plain columns, then its constraints in
\* relationship-list order
columns_ddl_of(model, relationships, pk_map) ==
  LET plain == SelectSeq(model.columns, LAMBDA c : ~HasKey(c, "relationship"))
      columns == Collect([i \in 1..Len(plain) |-> column_ddl(plain[i], model)])
      constraints == Collect([i \in 1..Len(relationships) |->
                        relationship_constraints(model.name, relationships[i], pk_map)])
  IN IF ~columns.ok THEN columns
     ELSE IF ~constraints.ok THEN constraints
     ELSE Ok(columns.value \o Flatten(constraints.value))

\* DDLConverter._convert_models_and_relationships
convert_models_and_relationships(models, relationships) ==
  LET pk_map == primary_keys_map(models)
      table(model) ==
        LET columns_ddl == columns_ddl_of(model, relationships, pk_map) IN
        IF ~columns_ddl.ok THEN columns_ddl
        ELSE Ok(create_table_ddl(model_comment(model), model.name, columns_ddl.value))
  IN Collect([i \in 1..Len(models) |-> table(models[i])])

\* DDLConverter._convert_views
convert_views(views) ==
  LET format(view) ==
        IF ~({"name", "statement"} \subseteq DOMAIN view) THEN Raise("KeyError")
        ELSE Ok("/* " \o (IF HasKey(view, "properties")
                          THEN PyStr(view.properties, <<"question", "description">>)
                          ELSE "")
                \o " */\nCREATE VIEW " \o view.name \o "\nAS (" \o view.statement \o ")")
  IN Collect([i \in 1..Len(views) |-> format(views[i])])

\* DDLConverter._convert_metrics
convert_metrics(metrics) ==
  LET dimension_ddl(d) ==
        "-- This column is a dimension\n  " \o d.name \o " " \o d.type
      measure_ddl(m) ==
        "-- This column is a measure\n  -- expression: " \o m.expression \o "\n  "
          \o m.name \o " " \o m.type
      table(metric) ==
        IF ~({"name", "dimension", "measure", "baseObject"} \subseteq DOMAIN metric)
        THEN Raise("KeyError")
        ELSE Ok(create_table_ddl(
                  "\n/* This table is a metric */\n/* Metric Base Object: "
                    \o metric.baseObject \o " */\n",
                  metric.name,
                  [i \in 1..Len(metric.dimension) |-> dimension_ddl(metric.dimension[i])]
                    \o [i \in 1..Len(metric.measure) |-> measure_ddl(metric.measure[i])]))
  IN Collect([i \in 1..Len(metrics) |-> table(metrics[i])])

\* [Document(id=str(i), meta={"id": str(i)}, content=c) for i, c in enumerate(contents)]
documents_of(contents) ==
  [i \in 1..Len(contents) |->
     [id |-> Str(i - 1), content |-> contents[i], embedding |-> "none"]]

\* ------------------------------------------------------------------ JSON texts

\* An input text is what orjson.loads makes of it: nothing (the text is not
\* JSON), or a JSON value: an object (a dict of lists), an array of strings
\* or a number.
JsonObject(obj) == [kind |-> "object", obj |-> obj, items |-> <<>>]

JsonArray(items) == [kind |-> "array", obj |-> EmptyDict, items |-> items]

JsonNumber == [kind |-> "number", obj |-> EmptyDict, items |-> <<>>]

NoValue == [kind |-> "none", obj |-> EmptyDict, items |-> <<>>]

Text(json) == [parseable |-> TRUE, json |-> json]

MalformedText == [parseable |-> FALSE, json |-> NoValue]

orjson_loads(text) ==
  IF text.parseable THEN Ok(text.json) ELSE Raise("JSONDecodeError")

\* ------------------------------------------------------------------ MDLValidator

MdlKeys == <<"models", "views", "relationships", "metrics">>

\* `key in mdl_json`: dict keys, list elements; an int is not iterable
contains(json, key) ==
  CASE json.kind = "object" -> Ok(HasKey(json.obj, key))
    [] json.kind = "array" -> Ok(\E i \in 1..Len(json.items) : json.items[i] = key)
    [] OTHER -> Raise("TypeError")

\* `mdl_json[key] = []`: a list takes no string index
set_default(json, key) ==
  IF json.kind = "object"
  THEN Ok([json EXCEPT !.obj =
             [k \in DOMAIN json.obj \cup {key} |->
                IF k = key THEN <<>> ELSE json.obj[k]]])
  ELSE Raise("TypeError")

\* Mutant of ensure_key: the key is set to [] whether it is present or not
ensure_key_overwrites(result, key) ==
  IF ~result.ok THEN result ELSE set_default(result.value, key)

\* One `if key not in mdl_json: mdl_json[key] = []`
ensure_key(result, key) ==
  IF ~result.ok THEN result
  ELSE LET present == contains(result.value, key) IN
       IF ~present.ok THEN Raise(present.error)
       ELSE IF present.value THEN result
       ELSE set_default(result.value, key)

\* MDLValidator.run
MDLValidator_run(text) ==
  LET loaded == orjson_loads(text) IN
  IF ~loaded.ok THEN Raise("ValueError")
  ELSE ensure_key(ensure_key(ensure_key(ensure_key(
         Ok(loaded.value), MdlKeys[1]), MdlKeys[2]), MdlKeys[3]), MdlKeys[4])

\* mdl[key] in a converter: a missing key, or an mdl that is no dict
section(mdl, key) ==
  IF mdl.kind # "object" THEN Raise("TypeError")
  ELSE IF ~HasKey(mdl.obj, key) THEN Raise("KeyError")
  ELSE Ok(mdl.obj[key])

\* ------------------------------------------------------------------ ViewConverter

\* ViewConverter.run
ViewConverter_run(mdl) ==
  LET views == section(mdl, "views")
      property(view, key) ==
        IF HasKey(view, "properties") /\ HasKey(view.properties, key)
        THEN view.properties[key] ELSE ""
      format(view) ==
        IF ~HasKey(view, "statement") THEN Raise("KeyError")
        ELSE Ok(PyStr([question |-> property(view, "question"),
                       description |-> property(view, "description"),
                       statement |-> view.statement],
                      <<"question", "description", "statement">>))
  IN IF ~views.ok THEN views
     ELSE LET converted_views ==
                Collect([i \in 1..Len(views.value) |-> format(views.value[i])])
          IN IF ~converted_views.ok THEN converted_views
             ELSE Ok(documents_of(converted_views.value))

\* ------------------------------------------------------------------ DDLConverter.run

\* Mutant of ddl_commands: the views are emitted before the metrics
ddl_commands_views_first(tables, metric_tables, view_ddls) ==
  tables \o view_ddls \o metric_tables

\* ddl_commands: the tables of the models, then of the metrics, then the views
ddl_commands(tables, metric_tables, view_ddls) ==
  tables \o metric_tables \o view_ddls

\* DDLConverter.run
DDLConverter_run(mdl) ==
  LET relationships == section(mdl, "relationships")
      views == section(mdl, "views")
      metrics == section(mdl, "metrics")
      models == section(mdl, "models")
  IN IF ~relationships.ok THEN relationships
     ELSE IF ~views.ok THEN views
     ELSE IF ~metrics.ok THEN metrics
     ELSE IF ~models.ok THEN models
     ELSE
       LET semantics_models ==
             Collect([i \in 1..Len(models.value) |-> semantics_model(models.value[i])])
       IN IF ~semantics_models.ok THEN semantics_models
          ELSE
            LET tables == convert_models_and_relationships(
                            semantics_models.value, relationships.value)
                metric_tables == convert_metrics(metrics.value)
                view_ddls == convert_views(views.value)
            IN IF ~tables.ok THEN tables
               ELSE IF ~metric_tables.ok THEN metric_tables
               ELSE IF ~view_ddls.ok THEN view_ddls
               ELSE Ok(documents_of(
                         ddl_commands(tables.value, metric_tables.value, view_ddls.value)))

\* ------------------------------------------------------------------ inputs

MaxModels == 2

MaxRels == 1

MaxMetrics == 1

MaxViews == 1

\* Lists of at most n elements of pool
RECURSIVE ListsUpTo(_, _)
ListsUpTo(pool, n) ==
  IF n = 0 THEN {<<>>}
  ELSE LET shorter == ListsUpTo(pool, n - 1) IN
       shorter \cup {Append(l, e) : l \in {s \in shorter : Len(s) = n - 1}, e \in pool}

\* Those of them that name no element twice
DistinctListsUpTo(pool, n) ==
  {l \in ListsUpTo(pool, n) : \A i, j \in 1..Len(l) : l[i] = l[j] => i = j}

customers ==
  [name |-> "customers", primaryKey |-> "id",
   columns |-> <<[name |-> "id", type |-> "int"]>>]

orders ==
  [name |-> "orders", primaryKey |-> "order_id",
   properties |-> [description |-> "placed orders"],
   columns |-> <<[name |-> "order_id", type |-> "int",
                  properties |-> [description |-> "key"]],
                 [name |-> "customer_id", type |-> "int"],
                 [name |-> "customer", type |-> "customers",
                  relationship |-> "orders_customers"],
                 [name |-> "total", type |-> "float", isCalculated |-> TRUE,
                  expression |-> "sum(price)"]>>]

\* a model without primaryKey
items ==
  [name |-> "items", columns |-> <<[name |-> "sku", type |-> "varchar"]>>]

ModelPool == {customers, orders, items}

\* The models that relationships are resolved against
RelatedModelPool == {customers, orders}

JoinTypes == {"MANY_TO_ONE", "ONE_TO_MANY", "ONE_TO_ONE"}

\* The pairs of a relationship: orders with another model, with itself, and
\* with "ghost", which names no model, at both positions
RelPairs ==
  {<<"orders", "customers">>, <<"orders", "orders">>,
   <<"orders", "ghost">>, <<"ghost", "orders">>}

Ref(table, column) == <<table, ".", column>>

Conditions ==
  { Ref("orders", "customer_id") \o EqSep \o Ref("customers", "id"),
    Ref("customers", "id") \o EqSep \o Ref("orders", "customer_id"),
    Ref("orders", "customer_id") \o EqSep \o Ref("orders", "order_id"),
    Ref("orders", "customer_id"),
    Ref("orders", "customer_id") \o EqSep \o Ref("customers", "id")
      \o EqSep \o Ref("orders", "order_id"),
    <<"customer_id">> \o EqSep \o Ref("customers", "id"),
    Ref("orders", "customer_id") \o EqSep \o <<"id">> }

RelPool ==
  [models : RelPairs, joinType : JoinTypes, condition : Conditions]

revenue ==
  [name |-> "revenue", baseObject |-> "orders",
   dimension |-> <<[name |-> "day", type |-> "date"]>>,
   measure |-> <<[name |-> "amount", type |-> "float", expression |-> "sum(total)"]>>]

MetricPool == {revenue}

top_customers ==
  [name |-> "top_customers", statement |-> "select 1",
   properties |-> [question |-> "who buys most", description |-> "best customers"]]

plain_view == [name |-> "plain_view", statement |-> "select 2"]

\* a view without statement
broken_view == [name |-> "broken_view"]

ViewPool == {top_customers, plain_view, broken_view}

\* A section of the object: absent, or a list
Absent == [present |-> FALSE, list |-> <<>>]

Present(lists) == {[present |-> TRUE, list |-> l] : l \in lists}

ObjectOf(models, relationships, metrics, views) ==
  LET given == [models |-> models, relationships |-> relationships,
                metrics |-> metrics, views |-> views]
  IN JsonObject([k \in {key \in DOMAIN given : given[key].present} |-> given[k].list])

\* The objects the compiler is applied to: models with relationships, and
\* models with metrics and views.
Objects ==
  {ObjectOf(m, r, Absent, Absent) :
     m \in Present(DistinctListsUpTo(RelatedModelPool, MaxModels)) \cup {Absent},
     r \in Present(ListsUpTo(RelPool, MaxRels)) \cup {Absent}}
  \cup
  {ObjectOf(m, r, me, v) :
     m \in Present(ListsUpTo(ModelPool, MaxModels)) \cup {Absent},
     r \in Present({<<>>}) \cup {Absent},
     me \in Present(ListsUpTo(MetricPool, MaxMetrics)) \cup {Absent},
     v \in Present(ListsUpTo(ViewPool, MaxViews)) \cup {Absent}}

NonObjects == {JsonNumber, JsonArray(<<>>), JsonArray(MdlKeys)}

Texts == {MalformedText} \cup {Text(j) : j \in Objects \cup NonObjects}

\* ------------------------------------------------------------------ document stores

\* A store maps a document's id to the document.
EmptyStore == [id \in {} |-> [content |-> "", embedding |-> "none"]]

count_documents(store) == Cardinality(DOMAIN store)

delete_documents(store, ids) == [id \in DOMAIN store \ ids |-> store[id]]

\* write_documents(documents, policy=DuplicatePolicy.OVERWRITE)
write_documents(store, documents) ==
  LET ids == {documents[i].id : i \in 1..Len(documents)}
      last(id) == CHOOSE i \in 1..Len(documents) :
                    /\ documents[i].id = id
                    /\ \A j \in 1..Len(documents) : documents[j].id = id => j <= i
  IN [id \in DOMAIN store \cup ids |->
        IF id \in ids
        THEN [content |-> documents[last(id)].content,
              embedding |-> documents[last(id)].embedding]
        ELSE store[id]]

\* ------------------------------------------------------------------ DocumentCleaner

\* Mutant of clear_ids: range(count - 1), the last id is left out
clear_ids_short(store) == {Str(i) : i \in 0..(count_documents(store) - 2)}

\* ids = [str(i) for i in range(store.count_documents())]
clear_ids(store) == {Str(i) : i \in 0..(count_documents(store) - 1)}

\* Mutant of clear_documents: nothing is deleted
clear_documents_noop(store) == [store |-> store, deleted |-> FALSE]

\* Mutant of clear_documents: delete_documents is called whatever ids holds
clear_documents_always(store) ==
  [store |-> delete_documents(store, {Str(i) : i \in 0..(count_documents(store) - 1)}),
   deleted |-> TRUE]

\* DocumentCleaner.run._clear_documents: the store afterwards, and whether
\* delete_documents was called
clear_documents(store) ==
  LET ids == clear_ids(store) IN
  IF ids # {} THEN [store |-> delete_documents(store, ids), deleted |-> TRUE]
  ELSE [store |-> store, deleted |-> FALSE]

\* ------------------------------------------------------------------ Indexing

Branches == {"ddl", "view"}

\* Mutant of CleanerStores: the cleaner is given the DDL store alone
CleanerStoresDdlOnly == <<"ddl">>

\* DocumentCleaner([ddl_store, view_store])
CleanerStores == <<"ddl", "view">>

Components ==
  {"cleaner", "validator", "ddl_converter", "ddl_embedder", "ddl_writer",
   "view_converter", "view_embedder", "view_writer"}

\* Mutant of Connections: the cleaner is not connected to the validator
ConnectionsWithoutCleaner ==
  {<<"validator", "ddl_converter">>,
   <<"ddl_converter", "ddl_embedder">>,
   <<"ddl_embedder", "ddl_writer">>,
   <<"validator", "view_converter">>,
   <<"view_converter", "view_embedder">>,
   <<"view_embedder", "view_writer">>}

\* pipe.connect(sender, receiver)
Connections ==
  {<<"cleaner", "validator">>,
   <<"validator", "ddl_converter">>,
   <<"ddl_converter", "ddl_embedder">>,
   <<"ddl_embedder", "ddl_writer">>,
   <<"validator", "view_converter">>,
   <<"view_converter", "view_embedder">>,
   <<"view_embedder", "view_writer">>}

Converter(b) == b \o "_converter"

Embedder(b) == b \o "_embedder"

Writer(b) == b \o "_writer"

VARIABLES
  mdl_str,       \* the text given to Indexing.run
  status,        \* of the run: "idle", "running", "failed", "completed"
  done,          \* the components that have run in this run
  error,         \* the exception that ended the run, or "none"
  failed_at,     \* the component that raised it, or "none"
  mdl,           \* the validator's output
  docs,          \* per branch, the documents on their way to the writer
  store,         \* the DDL store and the view store
  calls,         \* the delete_documents and write_documents calls of this run
  start,         \* the stores as they were when this run started
  failed_since_completion,  \* per branch: failed in its compile or embed step,
                            \* and no run has completed since
  failed_since_write        \* per branch: failed in its compile or embed step,
                            \* and its writer has not written since

vars ==
  <<mdl_str, status, done, error, failed_at, mdl, docs, store, calls, start,
    failed_since_completion, failed_since_write>>

history == <<failed_since_completion, failed_since_write>>

\* A component runs once all its senders have run
Ready(c) ==
  /\ status = "running"
  /\ c \notin done
  /\ \A e \in Connections : e[2] = c => e[1] \in done

\* Mutant of Ran: the run is over once one writer has run
RanUntilFirstWriter(c) ==
  /\ done' = done \cup {c}
  /\ status' = IF c \in {"ddl_writer", "view_writer"} THEN "completed" ELSE "running"
  /\ failed_since_completion' =
       IF c \in {"ddl_writer", "view_writer"} THEN [b \in Branches |-> FALSE]
       ELSE failed_since_completion

\* The component c has run; the run is over once every component has
Ran(c) ==
  /\ done' = done \cup {c}
  /\ status' = IF done \cup {c} = Components THEN "completed" ELSE "running"
  /\ failed_since_completion' =
       IF done \cup {c} = Components THEN [b \in Branches |-> FALSE]
       ELSE failed_since_completion

\* The component c raised: Pipeline.run propagates the exception
Raised(c, e) ==
  /\ status' = "failed"
  /\ error' = e
  /\ failed_at' = c
  /\ UNCHANGED done

NoDocs == [b \in Branches |-> <<>>]

\* Indexing.run(mdl_str), up to its first component
StartRun(text) ==
  /\ status # "running"
  /\ mdl_str' = text
  /\ status' = "running"
  /\ done' = {}
  /\ error' = "none"
  /\ failed_at' = "none"
  /\ mdl' = NoValue
  /\ docs' = NoDocs
  /\ calls' = <<>>
  /\ start' = store
  /\ UNCHANGED <<store, history>>

\* The stores after _clear_documents on the first n of the cleaner's stores
RECURSIVE cleared(_, _)
cleared(stores, n) ==
  IF n = 0 THEN stores
  ELSE LET before == cleared(stores, n - 1)
           s == CleanerStores[n]
       IN [before EXCEPT ![s] = clear_documents(before[s]).store]

\* The delete_documents calls of those n clearings
RECURSIVE clear_calls(_, _)
clear_calls(stores, n) ==
  IF n = 0 THEN <<>>
  ELSE LET s == CleanerStores[n] IN
       clear_calls(stores, n - 1)
         \o (IF clear_documents(cleared(stores, n - 1)[s]).deleted
             THEN <<[store |-> s, op |-> "delete"]>> ELSE <<>>)

\* DocumentCleaner.run
CleanerStep ==
  /\ Ready("cleaner")
  /\ store' = cleared(store, Len(CleanerStores))
  /\ calls' = calls \o clear_calls(store, Len(CleanerStores))
  /\ Ran("cleaner")
  /\ UNCHANGED <<mdl_str, error, failed_at, mdl, docs, start, failed_since_write>>

\* DocumentCleaner.run when the n-th store refuses its delete_documents call:
\* the stores before it are cleared already
CleanerFails(n) ==
  /\ Ready("cleaner")
  /\ clear_documents(cleared(store, n - 1)[CleanerStores[n]]).deleted
  /\ store' = cleared(store, n - 1)
  /\ calls' = calls \o clear_calls(store, n - 1)
                    \o <<[store |-> CleanerStores[n], op |-> "delete"]>>
  /\ Raised("cleaner", "StoreError")
  /\ UNCHANGED <<mdl_str, mdl, docs, start, history>>

\* MDLValidator.run
ValidatorStep ==
  /\ Ready("validator")
  /\ LET result == MDLValidator_run(mdl_str) IN
     IF result.ok
     THEN /\ mdl' = result.value
          /\ Ran("validator")
          /\ UNCHANGED <<error, failed_at>>
     ELSE /\ Raised("validator", result.error)
          /\ UNCHANGED <<mdl, failed_since_completion>>
  /\ UNCHANGED <<mdl_str, docs, store, calls, start, failed_since_write>>

\* The branch b failed in its compile or embed step
BranchFailed(b, c, e) ==
  /\ Raised(c, e)
  /\ failed_since_completion' = [failed_since_completion EXCEPT ![b] = TRUE]
  /\ failed_since_write' = [failed_since_write EXCEPT ![b] = TRUE]
  /\ UNCHANGED docs

\* A converter's run: its documents go to the branch's embedder
Converted(b, result) ==
  /\ Ready(Converter(b))
  /\ IF result.ok
     THEN /\ docs' = [docs EXCEPT ![b] = result.value]
          /\ Ran(Converter(b))
          /\ UNCHANGED <<error, failed_at, failed_since_write>>
     ELSE BranchFailed(b, Converter(b), result.error)
  /\ UNCHANGED <<mdl_str, mdl, store, calls, start>>

\* DDLConverter.run
DDLConverterStep == Converted("ddl", DDLConverter_run(mdl))

\* ViewConverter.run
ViewConverterStep == Converted("view", ViewConverter_run(mdl))

\* The document embedder of branch b: every document gets its vector
EmbedderStep(b) ==
  /\ Ready(Embedder(b))
  /\ docs' = [docs EXCEPT ![b] =
               [i \in 1..Len(docs[b]) |-> [docs[b][i] EXCEPT !.embedding = "vector"]]]
  /\ Ran(Embedder(b))
  /\ UNCHANGED <<mdl_str, error, failed_at, mdl, store, calls, start, failed_since_write>>

\* The embedding service fails
EmbedderFails(b) ==
  /\ Ready(Embedder(b))
  /\ BranchFailed(b, Embedder(b), "EmbedderError")
  /\ UNCHANGED <<mdl_str, mdl, store, calls, start>>

\* DocumentWriter(document_store=store, policy=DuplicatePolicy.OVERWRITE)
WriterStep(b) ==
  /\ Ready(Writer(b))
  /\ store' = [store EXCEPT ![b] = write_documents(store[b], docs[b])]
  /\ calls' = Append(calls, [store |-> b, op |-> "write"])
  /\ failed_since_write' = [failed_since_write EXCEPT ![b] = FALSE]
  /\ Ran(Writer(b))
  /\ UNCHANGED <<mdl_str, error, failed_at, mdl, docs, start>>

\* The store refuses the write
WriterFails(b) ==
  /\ Ready(Writer(b))
  /\ Raised(Writer(b), "StoreError")
  /\ calls' = Append(calls, [store |-> b, op |-> "write"])
  /\ UNCHANGED <<mdl_str, mdl, docs, store, start, history>>

\* The texts given to the runs of the pipeline
RunTexts ==
  { MalformedText,
    Text(JsonArray(<<>>)),
    Text(JsonObject(EmptyDict)),
    Text(JsonObject([models |-> <<customers>>])),
    Text(JsonObject([models |-> <<customers>>, views |-> <<plain_view>>])),
    Text(JsonObject([models |-> <<customers, orders>>,
                     relationships |->
                       <<[models |-> <<"orders", "customers">>,
                          joinType |-> "MANY_TO_ONE",
                          condition |-> Ref("orders", "customer_id") \o EqSep
                                          \o Ref("customers", "id")]>>,
                     metrics |-> <<revenue>>,
                     views |-> <<top_customers, plain_view>>])),
    Text(JsonObject([models |-> <<items>>, views |-> <<top_customers>>])),
    Text(JsonObject([models |-> <<customers>>,
                     relationships |->
                       <<[models |-> <<"customers", "ghost">>,
                          joinType |-> "MANY_TO_ONE",
                          condition |-> Ref("customers", "id") \o EqSep
                                          \o Ref("ghost", "id")]>>])),
    Text(JsonObject([views |-> <<broken_view>>])) }

Init ==
  /\ mdl_str = MalformedText
  /\ status = "idle"
  /\ done = {}
  /\ error = "none"
  /\ failed_at = "none"
  /\ mdl = NoValue
  /\ docs = NoDocs
  /\ store = [b \in Branches |-> EmptyStore]
  /\ calls = <<>>
  /\ start = [b \in Branches |-> EmptyStore]
  /\ failed_since_completion = [b \in Branches |-> FALSE]
  /\ failed_since_write = [b \in Branches |-> FALSE]

Next ==
  \/ \E text \in RunTexts : StartRun(text)
  \/ CleanerStep
  \/ \E n \in 1..Len(CleanerStores) : CleanerFails(n)
  \/ ValidatorStep
  \/ DDLConverterStep
  \/ ViewConverterStep
  \/ \E b \in Branches : EmbedderStep(b)
  \/ \E b \in Branches : EmbedderFails(b)
  \/ \E b \in Branches : WriterStep(b)
  \/ \E b \in Branches : WriterFails(b)

Spec == Init /\ [][Next]_vars

\* The compiler alone: the validator and the DDL converter applied to each
\* text of Texts, the cleaner having run on the empty stores.
InitCompile ==
  /\ mdl_str \in Texts
  /\ status = "running"
  /\ done = {"cleaner"}
  /\ error = "none"
  /\ failed_at = "none"
  /\ mdl = NoValue
  /\ docs = NoDocs
  /\ store = [b \in Branches |-> EmptyStore]
  /\ calls = <<>>
  /\ start = [b \in Branches |-> EmptyStore]
  /\ failed_since_completion = [b \in Branches |-> FALSE]
  /\ failed_since_write = [b \in Branches |-> FALSE]

NextCompile ==
  \/ ValidatorStep
  \/ DDLConverterStep

SpecCompile == InitCompile /\ [][NextCompile]_vars

\* ------------------------------------------------------------------ the runs' properties

Called(s, op) == \E i \in 1..Len(calls) : calls[i] = [store |-> s, op |-> op]

MalformedRunFailed ==
  status = "failed" /\ failed_at = "validator" /\ ~mdl_str.parseable

\* C1 as stated: when the input text is not parseable the run fails and, in
\* the state where the validator raises, both stores hold exactly the
\* documents they held when the run started, no delete_documents and no
\* write_documents call having happened.
C1_MalformedInputMutatesNothing ==
  MalformedRunFailed => store = start /\ calls = <<>>

\* C1 as amended: when the input text is not parseable the run fails at the
\* validator with a ValueError and no write_documents call has happened; the
\* cleaner has run before the validator, so each store that held documents
\* when the run started has had one delete_documents call and both stores
\* are empty.
C1_MalformedInputClearsWithoutWriting ==
  MalformedRunFailed =>
    /\ error = "ValueError"
    /\ \A s \in Branches :
         /\ ~Called(s, "write")
         /\ store[s] = EmptyStore
         /\ Called(s, "delete") <=> start[s] # EmptyStore

\* C1's case: a malformed text given after a run that filled both stores
C1_Witness ==
  /\ MalformedRunFailed
  /\ \A s \in Branches : start[s] # EmptyStore

Ids(n) == {Str(i) : i \in 0..(n - 1)}

\* The store holds exactly the documents, embedded
HoldsExactly(s, documents) ==
  /\ DOMAIN store[s] = Ids(Len(documents))
  /\ \A i \in 1..Len(documents) :
       /\ documents[i].id = Str(i - 1)
       /\ store[s][Str(i - 1)] =
            [content |-> documents[i].content, embedding |-> "vector"]

\* C2: after every run that completes, the DDL store holds exactly the
\* documents compiled from that run's MDL, with the ids "0".."n-1" where
\* n = #models + #metrics + #views, and the view store holds exactly that
\* run's len(views) documents; no document of an earlier run survives.
C2_CompletedRunReplacesStores ==
  status = "completed" =>
    /\ mdl.kind = "object"
    /\ DOMAIN store["ddl"] =
         Ids(Len(mdl.obj.models) + Len(mdl.obj.metrics) + Len(mdl.obj.views))
    /\ DDLConverter_run(mdl).ok
    /\ HoldsExactly("ddl", DDLConverter_run(mdl).value)
    /\ DOMAIN store["view"] = Ids(Len(mdl.obj.views))
    /\ ViewConverter_run(mdl).ok
    /\ HoldsExactly("view", ViewConverter_run(mdl).value)

\* C2's case: a completed run after a run that wrote more documents to both
\* stores
C2_Witness ==
  /\ status = "completed"
  /\ \A s \in Branches :
       /\ store[s] # EmptyStore
       /\ Cardinality(DOMAIN start[s]) > Cardinality(DOMAIN store[s])

\* C3 as stated: once a branch has failed in its compile or embed step, its
\* store is empty when that run ends and whenever a later run has ended,
\* until a run completes.
C3_EmptyUntilNextCompletedRun ==
  \A b \in Branches :
    status = "failed" /\ failed_since_completion[b] => store[b] = EmptyStore

\* C3 as amended: when a branch fails in its compile or embed step, its store
\* is empty when the run ends, no write to it having been called in that run,
\* and the store stays empty until the next run in which that branch's writer
\* writes, whether that run completes or not.
C3_EmptyUntilBranchWrites ==
  \A b \in Branches :
    /\ failed_since_write[b] => store[b] = EmptyStore
    /\ status = "failed" /\ failed_at \in {Converter(b), Embedder(b)} =>
         ~Called(b, "write") /\ store[b] = EmptyStore /\ failed_since_write[b]

\* C3's case: after the DDL branch of a run failed, a later run has cleaned
\* the stores again and written the view branch, the DDL branch not yet
C3_Witness ==
  /\ failed_since_write["ddl"]
  /\ status = "running"
  /\ "view_writer" \in done
  /\ "ddl_converter" \notin done
  /\ store["view"] # EmptyStore

\* C10: clearing a store that holds no document calls no delete_documents,
\* raises nothing (the cleaner can fail only in a delete_documents call) and
\* leaves the store empty, and clearing a second time changes nothing: once
\* the cleaner has run and before a writer is called, each store is empty and
\* clearing it again is a no-op.
C10_ClearIsIdempotent ==
  /\ \A s \in Branches : start[s] = EmptyStore => ~Called(s, "delete")
  /\ (\A s \in Branches : start[s] = EmptyStore) => failed_at # "cleaner"
  /\ "cleaner" \in done =>
       \A s \in Branches :
         ~Called(s, "write") =>
           /\ store[s] = EmptyStore
           /\ clear_documents(store[s]) = [store |-> store[s], deleted |-> FALSE]

\* C10's case: the cleaner has run on two stores that were already empty
C10_Witness ==
  /\ "cleaner" \in done
  /\ "validator" \notin done
  /\ status = "running"
  /\ \A s \in Branches : start[s] = EmptyStore /\ store[s] = EmptyStore
  /\ calls = <<>>

\* ------------------------------------------------------------------ the compiler's properties

Validated == "validator" \in done

ValidatorFailed == status = "failed" /\ failed_at = "validator"

Compiled == "ddl_converter" \in done

CompileFailed == status = "failed" /\ failed_at = "ddl_converter"

Models == mdl.obj.models

Relationships == mdl.obj.relationships

Metrics == mdl.obj.metrics

Views == mdl.obj.views

\* The validated MDL is an object whose models DDLConverter.run accepts
ModelsAccepted ==
  /\ Validated
  /\ mdl.kind = "object"
  /\ \A i \in 1..Len(Models) : semantics_model(Models[i]).ok

SemanticsModels == [i \in 1..Len(Models) |-> semantics_model(Models[i]).value]

ModelNames == {Models[i].name : i \in 1..Len(Models)}

PrimaryKeyOf(name) ==
  Models[CHOOSE i \in 1..Len(Models) : Models[i].name = name].primaryKey

\* The constraint lines the relationship r adds to the table named name
Contributed(name, r) ==
  relationship_constraints(name, r, primary_keys_map(SemanticsModels))

\* The lines between the parentheses of the i-th model's table
LinesOf(i) ==
  columns_ddl_of(SemanticsModels[i], Relationships,
                 primary_keys_map(SemanticsModels)).value

Occurs(line, lines) == \E k \in 1..Len(lines) : lines[k] = line

\* The condition of r reads "A.c1 = B.c2" for r's models [A, B]
WellFormedFor(r) ==
  /\ Len(r.condition) = 9
  /\ r.condition = Ref(r.models[1], r.condition[3]) \o EqSep
                     \o Ref(r.models[2], r.condition[9])

ForeignKey(column, table) ==
  "FOREIGN KEY (" \o column \o ") REFERENCES " \o table
    \o "(" \o PrimaryKeyOf(table) \o ")"

\* r is a well-formed relationship of the given join type between two models
\* of the MDL
Resolvable(r, joinType) ==
  /\ r.joinType = joinType
  /\ {r.models[1], r.models[2]} \subseteq ModelNames
  /\ WellFormedFor(r)

C5_DirectionalForeignKey ==
  Compiled =>
    \A k \in 1..Len(Relationships) :
      LET r == Relationships[k]
          manyToOne == Resolvable(r, "MANY_TO_ONE")
          owner == IF manyToOne THEN r.models[1] ELSE r.models[2]
          line == IF manyToOne
                  THEN ForeignKey(r.condition[3], r.models[2])
                  ELSE ForeignKey(r.condition[9], r.models[1])
      IN manyToOne \/ Resolvable(r, "ONE_TO_MANY") =>
           \A i \in 1..Len(Models) :
             IF Models[i].name = owner
             THEN /\ Contributed(Models[i].name, r) = Ok(<<line>>)
                  /\ Occurs(line, LinesOf(i))
                  /\ docs["ddl"][i].content =
                       create_table_ddl(model_comment(SemanticsModels[i]),
                                        owner, LinesOf(i))
             ELSE Contributed(Models[i].name, r) = Ok(<<>>)

\* C5's case: a ONE_TO_MANY relationship between two different models of the
\* MDL has been compiled
C5_Witness ==
  /\ Compiled
  /\ \E k \in 1..Len(Relationships) :
       /\ Resolvable(Relationships[k], "ONE_TO_MANY")
       /\ Relationships[k].models[1] # Relationships[k].models[2]

\* C6: a ONE_TO_ONE relationship {models:[A,B], condition:"A.x = B.y"} between
\* models of the MDL gives table A FOREIGN KEY (x) REFERENCES B(primary key of
\* B) and table B FOREIGN KEY (y) REFERENCES A(primary key of A); it yields a
\* constraint, not a failure, also for a pair that names the same model twice.
C6_OneToOneSymmetric ==
  ModelsAccepted /\ (Compiled \/ CompileFailed) =>
    \A k \in 1..Len(Relationships) :
      LET r == Relationships[k] IN
      Resolvable(r, "ONE_TO_ONE") =>
        /\ Contributed(r.models[1], r).ok
        /\ Contributed(r.models[1], r).value
             = <<ForeignKey(r.condition[3], r.models[2])>>
        /\ r.models[2] # r.models[1] =>
             /\ Contributed(r.models[2], r).ok
             /\ Contributed(r.models[2], r).value
                  = <<ForeignKey(r.condition[9], r.models[1])>>

\* The relationship names a model that the primary-key map does not hold
Dangling(r) == \E j \in 1..Len(r.models) : r.models[j] \notin ModelNames

\* The condition does not split into exactly two dotted references
Malformed(r) ==
  LET sides == Split(r.condition, EqSep) IN
  \/ Len(sides) # 2
  \/ \E j \in 1..Len(sides) : Len(Split(sides[j], DotSep)) # 2

\* The relationship names a model of the MDL
Touches(r) == \E j \in 1..Len(r.models) : r.models[j] \in ModelNames

\* C7: compilation fails, and emits no document, for every MDL with a
\* relationship that names a model absent from the primary-key map or whose
\* condition does not split into exactly two dotted references, whatever the
\* join type and the position of the missing model or malformed side.  Stated
\* for the relationships that name a model of the MDL: once the DDL converter
\* has returned its documents, none of them is dangling or malformed.
C7_UnresolvableRelationshipFailsCompile ==
  Compiled =>
    \A k \in 1..Len(Relationships) :
      Touches(Relationships[k]) =>
        ~Dangling(Relationships[k]) /\ ~Malformed(Relationships[k])

\* C8: the document of a model without `properties` begins directly with
\* CREATE TABLE <name> (; the MDL with the single model customers and nothing
\* else compiles to the one document with id "0" and the content
\* CREATE TABLE customers (\n  id int PRIMARY KEY\n);
C8_NoCommentWithoutProperties ==
  Compiled =>
    /\ \A i \in 1..Len(Models) :
         ~HasKey(Models[i], "properties") =>
           docs["ddl"][i].content
             = "CREATE TABLE " \o Models[i].name \o " (\n  "
                 \o Join(LinesOf(i), ",\n  ") \o "\n);"
    /\ Models = <<customers>> /\ Relationships = <<>> /\ Metrics = <<>> /\ Views = <<>>
         => docs["ddl"] = <<[id |-> "0",
                             content |-> "CREATE TABLE customers (\n  id int PRIMARY KEY\n);",
                             embedding |-> "none"]>>

MdlKeySet == {MdlKeys[i] : i \in 1..Len(MdlKeys)}

\* The validator's output has the four keys: those of the input with the
\* input's values, the others with the empty list
Defaulted(input) ==
  /\ Validated
  /\ mdl.kind = "object"
  /\ DOMAIN mdl.obj = DOMAIN input \cup MdlKeySet
  /\ \A k \in DOMAIN input : mdl.obj[k] = input[k]
  /\ \A k \in MdlKeySet \ DOMAIN input : mdl.obj[k] = <<>>

\* C9 as stated: for every parseable input the validator returns an MDL in
\* which models, views, relationships and metrics exist, the absent ones as
\* empty lists and the present ones with their input values; it does not fail.
C9_EveryParseableInputIsDefaulted ==
  (Validated \/ ValidatorFailed) /\ mdl_str.parseable =>
    /\ mdl_str.json.kind = "object"
    /\ Defaulted(mdl_str.json.obj)

\* C9 as amended: for every input that parses to a JSON object the validator
\* returns an MDL in which models, views, relationships and metrics exist,
\* the absent ones as empty lists and the present ones with their input
\* values, and it does not fail whatever sections are missing.
C9_EveryObjectIsDefaulted ==
  (Validated \/ ValidatorFailed) /\ mdl_str.parseable /\ mdl_str.json.kind = "object"
    => Defaulted(mdl_str.json.obj)

\* C9's case: the validator has run on an object that has models and lacks
\* the three other sections
C9_Witness ==
  /\ Validated
  /\ mdl_str.parseable
  /\ mdl_str.json.kind = "object"
  /\ DOMAIN mdl_str.json.obj = {"models"}
  /\ mdl_str.json.obj.models # <<>>
  /\ mdl.obj.views = <<>>

\* ------------------------------------------------------------------ the stages of a run

\* The component c runs in this step, to its end or to its exception
Started(c) ==
  \/ c \in done' \ done
  \/ status = "running" /\ status' = "failed" /\ failed_at' = c

\* This step calls write_documents on the store of branch b
Writes(b) ==
  /\ Len(calls') = Len(calls) + 1
  /\ calls'[Len(calls')] = [store |-> b, op |-> "write"]

\* The cleaner has run in this run: each store that held documents has had
\* its delete_documents call, and a store not written since is empty
BothCleared ==
  /\ "cleaner" \in done
  /\ \A s \in Branches :
       /\ start[s] # EmptyStore => Called(s, "delete")
       /\ ~Called(s, "write") => store[s] = EmptyStore

DeletesBeforeWrites ==
  \A i, j \in 1..Len(calls) :
    calls[i].op = "delete" /\ calls[j].op = "write" => i < j

\* C11: within every run the stages occur in the order Clearing, Validating,
\* Compiling, Writing: the validator starts only after the cleaner has run,
\* a converter starts only after both stores have been cleared and the MDL
\* has been validated, a write_documents call is made only by a writer, only
\* after both stores have been cleared, the MDL has been validated and the
\* writer's own branch has compiled and embedded, and every delete_documents
\* call of a run precedes its write_documents calls.
C11_StagesInOrder ==
  [][ /\ DeletesBeforeWrites
      /\ Started("validator") => "cleaner" \in done
      /\ \A b \in Branches :
           /\ Started(Converter(b)) =>
                BothCleared /\ Validated /\ mdl.kind # "none"
           /\ Started(Embedder(b)) => Converter(b) \in done
           /\ Started(Writer(b)) =>
                /\ BothCleared
                /\ Validated
                /\ Converter(b) \in done
                /\ Embedder(b) \in done
           /\ Writes(b) => Started(Writer(b)) ]_vars

\* C11's case: a run over two stores that held documents has gone through
\* the four stages, both stores deleted from and then written
C11_Witness ==
  /\ status = "completed"
  /\ \A s \in Branches :
       /\ start[s] # EmptyStore
       /\ Called(s, "delete")
       /\ Called(s, "write")
  /\ Len(calls) = 4

\* The components of branch b
BranchComponents(b) == {Converter(b), Embedder(b), Writer(b)}

\* The branch b has written its documents to its own store
Written(b) ==
  /\ Writer(b) \in done
  /\ Called(b, "write")
  /\ HoldsExactly(b, docs[b])

\* C12: a run reaches its completed state only if both the DDL branch and
\* the view branch have written their documents to their own stores; when a
\* component of either branch raises in its compile, embed or write step the
\* run is failed, and a failed run never becomes completed: the only step
\* from it is the start of another run. This holds for every interleaving of
\* the two branches' steps.
C12_CompletesOnlyWhenBothWritten ==
  [][ /\ status' = "completed" =>
           /\ status = "running"
           /\ failed_at' = "none"
           /\ done' = Components
           /\ \A b \in Branches : Written(b)'
      /\ \A b \in Branches :
           failed_at' \in BranchComponents(b) => status' = "failed"
      /\ status = "failed" =>
           \/ status' = "failed" /\ done' = done
           \/ status' = "running" /\ done' = {} /\ calls' = <<>> ]_vars

\* C12's case: the DDL branch has written its documents and the view
\* branch's writer has raised afterwards; the run has failed
C12_Witness ==
  /\ status = "failed"
  /\ failed_at = "view_writer"
  /\ Written("ddl")
  /\ store["ddl"] # EmptyStore
  /\ "view_writer" \notin done

====
